---- MODULE Spec2Model ----
(***************************************************************************)
(* The synchronous PSP facade (payroll_engine/psp/psp.py, class PSP) as a  *)
(* state machine.  The facade's four operations are the actions; the       *)
(* services it composes (funding gate, ledger, payment orchestrator,       *)
(* reconciliation, liability) are operators over the persisted tables.     *)
(***************************************************************************)
EXTENDS Integers, Sequences, FiniteSets, TLC

\* ------------------------------------------------------------------ bounds
MaxCalls == 2          \* facade calls in one behaviour
MaxInstructions == 3   \* rows of payment_instruction
MaxAttempts == 4       \* rows of payment_attempt
MaxReservations == 3   \* rows of reservation

\* ------------------------------------------------------- program constants
NoId == 0              \* None, where an id is optional

\* --------------------------------------------------------------- universe
Tenants == {"T1", "T2"}
Rails == {"ach", "fednow", "rtp"}
DefaultRail == "ach"
DefaultFundingModel == "prefund_all"
FundingModels == {"prefund_all", "prefund_taxes", "postfund"}
FundingAccount == "client_funding_clearing"

\* Upstream pay runs: pay_run_id -> sum of the run's net-pay lines.
PayRunNet == (1 :> 5) @@ (3 :> 2) @@ (9 :> 2)

\* The funding account holds what the pay run of BatchA needs, and no more.
InitialFunding == PayRunNet[1]

Item(payee, amount, purpose) == [payee |-> payee, amount |-> amount, purpose |-> purpose]

\* The batches callers commit.  BatchA uses one id as batch id and as pay
\* period; BatchB has distinct ids; BatchC names a pay run that does not exist.
BatchA == [batch_id |-> 1, tenant_id |-> "T1", pay_period_id |-> 1,
           items |-> <<Item(1, 4, "employee_net"), Item(2, 1, "employee_net")>>,
           idempotency_key |-> "kA"]
BatchB == [batch_id |-> 2, tenant_id |-> "T1", pay_period_id |-> 3,
           items |-> <<Item(1, 2, "employee_net")>>,
           idempotency_key |-> "kB"]
BatchC == [batch_id |-> 4, tenant_id |-> "T1", pay_period_id |-> 4,
           items |-> <<Item(1, 2, "tax_payment")>>,
           idempotency_key |-> "kC"]
Batches == {BatchA, BatchB, BatchC}

\* A batch of an earlier cycle, committed and paid before the behaviour starts.
BatchP == [batch_id |-> 9, tenant_id |-> "T1", pay_period_id |-> 9,
           items |-> <<Item(5, 2, "employee_net")>>,
           idempotency_key |-> "kP"]

VARIABLES
    config,            \* PSPConfig
    providers,         \* registered rails
    gateEvals,         \* funding_gate_evaluation: idempotency key -> GateResult
    reservations,      \* reservation rows, id = index
    ledger,            \* ledger_entry rows, append-only
    instructions,      \* payment_instruction rows, id = index
    attempts,          \* payment_attempt rows, provider_request_id = index
    settlementEvents,  \* settlement_event: external_trace_id -> status
    liabilityEvents,   \* liability_event: idempotency key -> row
    emitted,           \* the events the last call handed to the emitter
    result,            \* the value the last call returned
    delivered,         \* the callbacks providers have delivered so far
    calls              \* number of facade calls made

vars == <<config, providers, gateEvals, reservations, ledger, instructions,
          attempts, settlementEvents, liabilityEvents, emitted, result, delivered,
          calls>>

\* ------------------------------------------------------------- arithmetic
RECURSIVE SumAmounts(_)
SumAmounts(s) == IF s = <<>> THEN 0 ELSE s[1].amount + SumAmounts(Tail(s))

\* ------------------------------------------------------------------ ledger
Entry(corr, account, direction, amount) ==
    [corr |-> corr, account |-> account, direction |-> direction, amount |-> amount]

Signed(e, account) ==
    IF e.account # account THEN 0
    ELSE IF e.direction = "credit" THEN e.amount ELSE 0 - e.amount

RECURSIVE PostedIn(_, _)
PostedIn(entries, account) ==
    IF entries = <<>> THEN 0
    ELSE Signed(entries[1], account) + PostedIn(Tail(entries), account)

\* reserved = sum of the held reservations.
RECURSIVE ReservedIn(_)
ReservedIn(res) ==
    IF res = <<>> THEN 0
    ELSE (IF res[1].status = "held" THEN res[1].amount ELSE 0) + ReservedIn(Tail(res))

\* get_balance: posted, reserved and available of the funding account.
GetBalance(entries, res) ==
    [posted |-> PostedIn(entries, FundingAccount),
     reserved |-> ReservedIn(res),
     available |-> PostedIn(entries, FundingAccount) - ReservedIn(res)]

\* create_reservation: a new held row; its id is returned.
CreateReservation(res, source_id, amount) ==
    Append(res, [source_id |-> source_id, amount |-> amount, status |-> "held"])

\* release_reservation(consumed): held -> consumed | released, else unchanged.
ReleaseReservation(res, rid, consumed) ==
    IF rid \in DOMAIN res /\ res[rid].status = "held"
    THEN [res EXCEPT ![rid].status = IF consumed THEN "consumed" ELSE "released"]
    ELSE res

\* ------------------------------------------------------------ funding gate
Reason(code, message, severity) ==
    [code |-> code, message |-> message, severity |-> severity]

HasError(reasons) == \E i \in DOMAIN reasons : reasons[i].severity = "error"

GateResult(kind, pay_run_id, reasons, available, required) ==
    [kind |-> kind, pay_run_id |-> pay_run_id, passed |-> ~HasError(reasons),
     available_amount |-> available, required_amount |-> required,
     shortfall |-> IF required > available THEN required - available ELSE 0,
     reasons |-> reasons]

\* evaluate_commit_gate, the evaluation proper (first failing check wins).
CommitGatePolicy(pay_run_id, funding_model, strict, bal) ==
    IF pay_run_id \notin DOMAIN PayRunNet
    THEN GateResult("commit", pay_run_id,
             <<Reason("PAY_RUN_NOT_FOUND", "pay run not found", "error")>>,
             bal.available, 0)
    ELSE IF funding_model \notin FundingModels
    THEN GateResult("commit", pay_run_id,
             <<Reason("UNKNOWN_FUNDING_MODEL", "funding model not recognized", "error")>>,
             bal.available, PayRunNet[pay_run_id])
    ELSE IF bal.available < PayRunNet[pay_run_id]
    THEN GateResult("commit", pay_run_id,
             <<Reason("INSUFFICIENT_FUNDS", "insufficient funds",
                      IF strict THEN "error" ELSE "warning")>>,
             bal.available, PayRunNet[pay_run_id])
    ELSE GateResult("commit", pay_run_id, <<>>, bal.available, PayRunNet[pay_run_id])

\* evaluate_pay_gate, the evaluation proper.
PayGatePolicy(evals, res, entries, pay_run_id) ==
    LET approved == \E k \in DOMAIN evals :
                        /\ evals[k].kind = "commit"
                        /\ evals[k].pay_run_id = pay_run_id
                        /\ evals[k].passed
        required == IF pay_run_id \in DOMAIN PayRunNet THEN PayRunNet[pay_run_id] ELSE 0
        covered  == \E i \in DOMAIN res :
                        /\ res[i].status = "held"
                        /\ res[i].source_id = pay_run_id
                        /\ res[i].amount >= required
        bal == GetBalance(entries, res)
    IN  IF ~approved
        THEN GateResult("pay", pay_run_id,
                 <<Reason("COMMIT_GATE_NOT_APPROVED", "no approved commit gate", "error")>>,
                 bal.available, required)
        ELSE IF ~covered
        THEN GateResult("pay", pay_run_id,
                 <<Reason("NO_HELD_RESERVATION", "no held reservation covers the pay run", "error")>>,
                 bal.available, required)
        ELSE GateResult("pay", pay_run_id, <<>>, bal.available, required)

\* A stored evaluation row per idempotency key; repeat calls replay it.
Replay(evals, key, fresh) == IF key \in DOMAIN evals THEN evals[key] ELSE fresh

StoreEval(evals, key, fresh) == IF key \in DOMAIN evals THEN evals ELSE evals @@ (key :> fresh)

\* ------------------------------------------------------------------ facade
InsufficientCodes == {"INSUFFICIENT_FUNDS"}
InsufficientMessages == {"insufficient funds"}

\* _reasons_contain_insufficient
ReasonsContainInsufficient(reasons) ==
    \E i \in DOMAIN reasons :
        \/ reasons[i].code \in InsufficientCodes
        \/ reasons[i].message \in InsufficientMessages

\* _summarize_reasons
SummarizeReasons(reasons) ==
    IF reasons = <<>> THEN <<"Unknown reason">>
    ELSE [i \in DOMAIN reasons |-> reasons[i].message]

\* correlation_id = uuid4(): an id no earlier call had, here the ordinal of
\* the call.
NewCorrelationId == calls + 1

\* EventMetadata.create(correlation_id=correlation_id) on an event, and the
\* correlation_id field of a result.
WithCorrelation(rec) == rec @@ [correlation_id |-> NewCorrelationId]

\* Every event given metadata of its own instead of the call's.
EmitOwnId(log, ev) ==
    IF config.emit_events
    THEN Append(log, ev @@ [correlation_id |-> NewCorrelationId + Len(log)])
    ELSE log

Emit(log, ev) == IF config.emit_events THEN Append(log, WithCorrelation(ev)) ELSE log

\* The reservation made before the gate decision is looked at.
CommitReservationsUngated(passed, batch) ==
    CreateReservation(reservations, batch.batch_id, SumAmounts(batch.items))

\* The reservation made for the first item only, not for the batch total.
CommitReservationsFirstItem(passed, batch) ==
    IF passed
    THEN CreateReservation(reservations, batch.batch_id, batch.items[1].amount)
    ELSE reservations

\* commit_payroll_batch, step 2: the reservation table after the gate decision.
CommitReservations(passed, batch) ==
    IF passed
    THEN CreateReservation(reservations, batch.batch_id, SumAmounts(batch.items))
    ELSE reservations

\* The events of one call with FundingBlocked for every gate failure.
CommitEventsBlockedOnly(gate, batch, res2) ==
    LET total == SumAmounts(batch.items)
        e1 == Emit(<<>>, [type |-> "FundingRequested", subject |-> batch.batch_id,
                          amount |-> total])
    IN  IF ~gate.passed
        THEN Emit(e1, [type |-> "FundingBlocked", subject |-> batch.batch_id,
                       amount |-> total])
        ELSE Emit(e1, [type |-> "FundingApproved", subject |-> batch.batch_id,
                       amount |-> total])

\* commit_payroll_batch: the events of one call.
CommitEvents(gate, batch, res2) ==
    LET total == SumAmounts(batch.items)
        e1 == Emit(<<>>, [type |-> "FundingRequested", subject |-> batch.batch_id,
                          amount |-> total])
    IN  IF ~gate.passed
        THEN IF ReasonsContainInsufficient(gate.reasons)
             THEN Emit(e1, [type |-> "FundingInsufficientFunds", subject |-> batch.batch_id,
                            amount |-> gate.shortfall])
             ELSE Emit(e1, [type |-> "FundingBlocked", subject |-> batch.batch_id,
                            amount |-> total])
        ELSE Emit(e1, [type |-> "FundingApproved", subject |-> batch.batch_id,
                       amount |-> total])

\* The CommitResult naming the first reservation there is for the batch.
CommitResultFirstReservation(gate, batch, res2) ==
    IF ~gate.passed
    THEN [op |-> "commit",
          status |-> IF ReasonsContainInsufficient(gate.reasons)
                     THEN "blocked_funds" ELSE "blocked_policy",
          batch_id |-> batch.batch_id, reservation_id |-> NoId,
          total_amount |-> SumAmounts(batch.items),
          approved_count |-> 0, blocked_count |-> Len(batch.items),
          block_reason |-> SummarizeReasons(gate.reasons)]
    ELSE [op |-> "commit", status |-> "approved",
          batch_id |-> batch.batch_id,
          reservation_id |-> CHOOSE i \in DOMAIN res2 :
                                 /\ res2[i].source_id = batch.batch_id
                                 /\ \A j \in DOMAIN res2 :
                                        res2[j].source_id = batch.batch_id => i <= j,
          total_amount |-> SumAmounts(batch.items),
          approved_count |-> Len(batch.items), blocked_count |-> 0,
          block_reason |-> <<>>]

\* commit_payroll_batch: the CommitResult.
CommitResult(gate, batch, res2) ==
    IF ~gate.passed
    THEN [op |-> "commit",
          status |-> IF ReasonsContainInsufficient(gate.reasons)
                     THEN "blocked_funds" ELSE "blocked_policy",
          batch_id |-> batch.batch_id, reservation_id |-> NoId,
          total_amount |-> SumAmounts(batch.items),
          approved_count |-> 0, blocked_count |-> Len(batch.items),
          block_reason |-> SummarizeReasons(gate.reasons)]
    ELSE [op |-> "commit", status |-> "approved",
          batch_id |-> batch.batch_id, reservation_id |-> Len(res2),
          total_amount |-> SumAmounts(batch.items),
          approved_count |-> Len(batch.items), blocked_count |-> 0,
          block_reason |-> <<>>]

CommitPayrollBatch(batch) ==
    LET key   == <<"commit_gate", batch.idempotency_key>>
        fresh == CommitGatePolicy(batch.pay_period_id, DefaultFundingModel,
                                  config.commit_gate_strict,
                                  GetBalance(ledger, reservations))
        gate  == Replay(gateEvals, key, fresh)
        res2  == CommitReservations(gate.passed, batch)
    IN  /\ calls < MaxCalls
        /\ Len(res2) <= MaxReservations
        /\ gateEvals' = StoreEval(gateEvals, key, fresh)
        /\ reservations' = res2
        /\ emitted' = CommitEvents(gate, batch, res2)
        /\ result' = WithCorrelation(CommitResult(gate, batch, res2))
        /\ calls' = calls + 1
        /\ UNCHANGED <<config, providers, ledger, instructions, attempts,
                       settlementEvents, liabilityEvents, delivered>>

\* ------------------------------------------------------ payment orchestrator
\* The declared state machine of a payment instruction.
LegalTransitions ==
    {<<"draft", "submitted">>, <<"draft", "failed">>,
     <<"submitted", "accepted">>, <<"submitted", "failed">>,
     <<"accepted", "settled">>,
     <<"accepted", "returned">>, <<"settled", "returned">>,
     <<"draft", "canceled">>, <<"submitted", "canceled">>}

Legal(from, to) == <<from, to>> \in LegalTransitions

\* One instruction row moved to `to` when the state machine allows it.
Transition(row, to) ==
    IF Legal(row.status, to)
    THEN [row EXCEPT !.status = to, !.path = Append(row.path, to)]
    ELSE row

\* update_status: a provider-sourced status update, state machine enforced.
UpdateStatus(instrs, id, new_status) ==
    [instrs EXCEPT ![id] = Transition(instrs[id], new_status)]

FindByKey(instrs, tenant, key) ==
    {i \in DOMAIN instrs : instrs[i].tenant_id = tenant /\ instrs[i].key = key}

\* create_*_instruction: idempotent per (tenant, idempotency_key).
CreateInstruction(instrs, tenant, batch_id, item, key, creator) ==
    IF FindByKey(instrs, tenant, key) # {}
    THEN [instructions |-> instrs, id |-> CHOOSE i \in FindByKey(instrs, tenant, key) : TRUE]
    ELSE [instructions |->
              Append(instrs, [tenant_id |-> tenant, key |-> key, batch_id |-> batch_id,
                              purpose |-> creator, payee |-> item.payee,
                              amount |-> item.amount, status |-> "draft",
                              path |-> <<"draft">>]),
          id |-> Len(instrs) + 1]

AttemptsOf(atts, id) == {a \in DOMAIN atts : atts[a].instruction_id = id}

LastAttempt(atts, id) ==
    IF AttemptsOf(atts, id) = {} THEN NoId
    ELSE CHOOSE a \in AttemptsOf(atts, id) : \A b \in AttemptsOf(atts, id) : b <= a

AttemptStatus(outcome) ==
    CASE outcome = "accept" -> "accepted"
      [] outcome = "reject" -> "rejected"
      [] OTHER -> "submit_unknown"

\* The instruction after the provider answered a submission.
AfterSubmit(row, outcome) ==
    CASE outcome = "accept" -> Transition(Transition(row, "submitted"), "accepted")
      [] outcome = "reject" -> Transition(row, "failed")
      [] OTHER -> Transition(row, "submitted")

\* submit: attempt row (reused while not completed, else attempt_no + 1),
\* provider call, response recorded, instruction moved.
Submit(instrs, atts, rail, id, outcome) ==
    LET last  == LastAttempt(atts, id)
        reuse == last # NoId /\ atts[last].status = "submit_unknown"
        a     == IF reuse THEN last ELSE Len(atts) + 1
        row   == IF reuse
                 THEN [atts[last] EXCEPT !.status = AttemptStatus(outcome),
                                         !.sends = @ + 1]
                 ELSE [instruction_id |-> id, provider_name |-> rail,
                       attempt_no |-> Cardinality(AttemptsOf(atts, id)) + 1,
                       status |-> AttemptStatus(outcome), sends |-> 1]
    IN  [instructions |-> [instrs EXCEPT ![id] = AfterSubmit(instrs[id], outcome)],
         attempts |-> IF reuse THEN [atts EXCEPT ![last] = row] ELSE Append(atts, row),
         accepted |-> outcome = "accept",
         attempt_id |-> a,
         message |-> outcome]

\* --------------------------------------------------------- execute_payments
\* _create_instruction_for_item: the creation method an item is routed to.
CreationMethod(purpose) ==
    CASE purpose = "employee_net" -> "employee_net"
      [] purpose = "tax_payment" -> "tax_payment"
      [] purpose = "vendor_payment" -> "vendor_payment"
      [] OTHER -> "employee_net"

Purposes == {"employee_net", "tax_payment", "vendor_payment"}

\* idempotency_key = f"{batch_id}:{item.payee_ref_id}:{item.purpose}"
ItemKey(batch_id, item) == <<batch_id, item.payee, item.purpose>>

\* The item created under a key that also counts the rows there are.
CreateInstructionForItemFresh(instrs, req, item) ==
    CreateInstruction(instrs, req.tenant_id, req.batch_id, item,
                      <<req.batch_id, item.payee, item.purpose, Len(instrs)>>,
                      CreationMethod(item.purpose))

\* _create_instruction_for_item of the synchronous facade.
CreateInstructionForItem(instrs, req, item) ==
    CreateInstruction(instrs, req.tenant_id, req.batch_id, item,
                      ItemKey(req.batch_id, item), CreationMethod(item.purpose))

\* AsyncPSP._create_instruction_for_item: every branch calls
\* create_employee_net_instruction.
AsyncCreationMethod(purpose) ==
    CASE purpose = "employee_net" -> "employee_net"
      [] purpose = "tax_payment" -> "employee_net"
      [] purpose = "vendor_payment" -> "employee_net"
      [] OTHER -> "employee_net"

AsyncCreateInstructionForItem(instrs, req, item) ==
    CreateInstruction(instrs, req.tenant_id, req.batch_id, item,
                      ItemKey(req.batch_id, item), AsyncCreationMethod(item.purpose))

\* One pass of the loop over items: create, emit, submit, emit.
ExecItem(st, req, item, outcome) ==
    LET cr  == CreateInstructionForItem(st.instructions, req, item)
        e1  == Emit(st.emitted, [type |-> "PaymentInstructionCreated", subject |-> cr.id,
                                 amount |-> item.amount])
        sb  == Submit(cr.instructions, st.attempts, req.rail, cr.id, outcome)
    IN  IF sb.accepted
        THEN [instructions |-> sb.instructions, attempts |-> sb.attempts,
              emitted |-> Emit(e1, [type |-> "PaymentSubmitted", subject |-> cr.id,
                                    amount |-> item.amount]),
              submitted_count |-> st.submitted_count + 1,
              failed_count |-> st.failed_count,
              failures |-> st.failures]
        ELSE [instructions |-> sb.instructions, attempts |-> sb.attempts,
              emitted |-> Emit(e1, [type |-> "PaymentFailed", subject |-> cr.id,
                                    amount |-> item.amount, is_retryable |-> FALSE,
                                    error_origin |-> "provider"]),
              submitted_count |-> st.submitted_count,
              failed_count |-> st.failed_count + 1,
              failures |-> Append(st.failures,
                                  [payee_ref_id |-> item.payee, amount |-> item.amount,
                                   error |-> sb.message])]

\* The loop left at the first item that was not accepted.
RECURSIVE ExecLoopStopAtFailure(_, _, _, _)
ExecLoopStopAtFailure(st, req, items, outcomes) ==
    IF items = <<>> \/ st.failed_count > 0 THEN st
    ELSE ExecLoopStopAtFailure(ExecItem(st, req, items[1], outcomes[1]), req,
                               Tail(items), Tail(outcomes))

RECURSIVE ExecLoop(_, _, _, _)
ExecLoop(st, req, items, outcomes) ==
    IF items = <<>> THEN st
    ELSE ExecLoop(ExecItem(st, req, items[1], outcomes[1]), req,
                  Tail(items), Tail(outcomes))

\* The call going on whatever the pay gate said.
PayGateOpenAlways(gate) == TRUE

\* Step 1: whether the pay gate lets the call go on.
PayGateOpen(gate) == config.pay_gate_always_enforced => gate.passed

\* Step 1: the evaluation rows after the call.
PayGateStore(evals, key, fresh) ==
    IF config.pay_gate_always_enforced THEN StoreEval(evals, key, fresh) ELSE evals

\* The reservation row written by the facade itself: consumed when all
\* succeeded, handed back when something failed.
ConsumeReservationDirect(res, rid, failed_count) ==
    IF rid = NoId THEN res
    ELSE [res EXCEPT ![rid].status = IF failed_count = 0 THEN "consumed" ELSE "released"]

\* The reservation consumed whenever one was passed.
ConsumeReservationAlways(res, rid, failed_count) ==
    IF rid # NoId THEN ReleaseReservation(res, rid, TRUE) ELSE res

\* Step 3: consume the reservation if all succeeded.
ConsumeReservation(res, rid, failed_count) ==
    IF rid # NoId /\ failed_count = 0 THEN ReleaseReservation(res, rid, TRUE) ELSE res

ExecuteStatus(submitted_count, failed_count) ==
    IF failed_count = 0 THEN "success"
    ELSE IF submitted_count = 0 THEN "failed"
    ELSE "partial"

ExecutePayments(req, outcomes) ==
    LET key   == <<"pay_gate", req.batch_id>>
        fresh == PayGatePolicy(gateEvals, reservations, ledger, req.batch_id)
        gate  == Replay(gateEvals, key, fresh)
        st0   == [instructions |-> instructions, attempts |-> attempts, emitted |-> <<>>,
                  submitted_count |-> 0, failed_count |-> 0, failures |-> <<>>]
        st    == ExecLoop(st0, req, req.items, outcomes)
    IN  /\ calls < MaxCalls
        /\ calls' = calls + 1
        /\ IF req.rail \notin providers
           THEN /\ result' = [op |-> "execute", status |-> "failed",
                              batch_id |-> req.batch_id, submitted_count |-> 0,
                              failed_count |-> Len(req.items),
                              failures |-> <<[error |-> "No provider registered"]>>,
                              correlation_id |-> NewCorrelationId]
                /\ emitted' = <<>>
                /\ UNCHANGED <<gateEvals, reservations, instructions, attempts>>
           ELSE IF ~PayGateOpen(gate)
           THEN /\ result' = [op |-> "execute", status |-> "blocked",
                              batch_id |-> req.batch_id, submitted_count |-> 0,
                              failed_count |-> Len(req.items),
                              failures |-> <<[error |-> SummarizeReasons(gate.reasons)]>>,
                              correlation_id |-> NewCorrelationId]
                /\ emitted' = <<>>
                /\ gateEvals' = PayGateStore(gateEvals, key, fresh)
                /\ UNCHANGED <<reservations, instructions, attempts>>
           ELSE /\ Len(st.instructions) <= MaxInstructions
                /\ Len(st.attempts) <= MaxAttempts
                /\ gateEvals' = PayGateStore(gateEvals, key, fresh)
                /\ instructions' = st.instructions
                /\ attempts' = st.attempts
                /\ emitted' = st.emitted
                /\ reservations' = ConsumeReservation(reservations, req.reservation_id,
                                                      st.failed_count)
                /\ result' = [op |-> "execute",
                              status |-> ExecuteStatus(st.submitted_count, st.failed_count),
                              batch_id |-> req.batch_id,
                              submitted_count |-> st.submitted_count,
                              failed_count |-> st.failed_count,
                              failures |-> st.failures,
                              correlation_id |-> NewCorrelationId]
        /\ UNCHANGED <<config, providers, ledger, settlementEvents, liabilityEvents,
                       delivered>>

Outcomes == {"accept", "reject", "timeout"}

\* What callers pass to execute_payments: a batch id, items (those committed,
\* or others) and the rail (BatchB goes out on fednow); the batch of the
\* earlier cycle may be executed again; BatchC holds a tax payment, or an item
\* whose purpose is none of the three; a call may name no item at all, or
\* two payments of one purpose to one payee.
ExecItems ==
    {<<BatchA.batch_id, BatchA.items, DefaultRail>>,
     <<BatchB.batch_id, <<>>, "rtp">>,
     <<BatchB.batch_id, <<Item(1, 1, "employee_net"), Item(1, 1, "employee_net")>>,
       "rtp">>,
     <<BatchA.batch_id, <<Item(3, 9, "employee_net")>>, DefaultRail>>,
     <<BatchB.batch_id, BatchB.items, "fednow">>,
     <<BatchP.batch_id, BatchP.items, DefaultRail>>,
     <<BatchC.batch_id, BatchC.items, DefaultRail>>,
     <<BatchC.batch_id, <<Item(1, 2, "garnishment")>>, DefaultRail>>}

\* reservation_id is optional; callers pass the id a commit of the batch returned.
ReservationIdsFor(batch_id) ==
    {NoId} \cup {i \in DOMAIN reservations : reservations[i].source_id = batch_id}

ExecRequests ==
    UNION {{[tenant_id |-> "T1", batch_id |-> bi[1], items |-> bi[2],
             reservation_id |-> rid, rail |-> bi[3]] :
                rid \in ReservationIdsFor(bi[1])} : bi \in ExecItems}

\* --------------------------------------------------------------- liability
Classification(origin, party, path, reason) ==
    [error_origin |-> origin, liability_party |-> party, recovery_path |-> path,
     determination_reason |-> reason]

\* classify_return: table-driven per rail; unknown codes default to psp/manual.
ClassifyReturn(rail, code) ==
    CASE rail = "ach" /\ code = "R01" ->
             Classification("client_funding", "client", "debit_client", code)
      [] rail = "ach" /\ code \in {"R02", "R03"} ->
             Classification("employee_data", "client", "client_remediation", code)
      [] rail = "ach" /\ code \in {"R06", "R10"} ->
             Classification("psp_process", "psp", "writeoff", code)
      [] rail = "fednow" /\ code = "RJCT" ->
             Classification("provider", "psp", "manual", code)
      [] OTHER -> Classification("unknown", "psp", "manual", code)

\* record_liability_event: idempotent on the idempotency key.
RecordLiabilityEvent(liab, key, source_id, classification, amount) ==
    IF key \in DOMAIN liab THEN liab
    ELSE liab @@ (key :> [source_id |-> source_id, classification |-> classification,
                          amount |-> amount, status |-> "classified"])

\* ------------------------------------------------- handle_provider_callback
Absent == "absent"   \* a key the payload does not hold

\* The attempt looked up by its reference alone.
FindInstructionByProviderRefAnyTenant(tenant, prid) ==
    IF prid \in DOMAIN attempts THEN attempts[prid].instruction_id ELSE NoId

\* _find_instruction_by_provider_ref: the instruction of the attempt, by tenant.
FindInstructionByProviderRef(tenant, prid) ==
    IF /\ prid \in DOMAIN attempts
       /\ instructions[attempts[prid].instruction_id].tenant_id = tenant
    THEN attempts[prid].instruction_id
    ELSE NoId

\* new_status = payload.get("status", previous_status)
CallbackNewStatus(payload, previous_status) ==
    IF payload.status = Absent THEN previous_status ELSE payload.status

IsReturnCase(callback_type, new_status) ==
    callback_type = "return" \/ new_status = "returned"

IsSettlementCase(callback_type, new_status) ==
    callback_type = "settlement" \/ new_status = "settled"

\* A missing return code read as the first code of the table.
ReturnCodeOrFirst(payload) ==
    IF payload.return_code = Absent THEN "R01" ELSE payload.return_code

\* return_code or "UNKNOWN"
ReturnCodeOr(payload) ==
    IF payload.return_code = Absent THEN "UNKNOWN" ELSE payload.return_code

\* The return case: classify and record the liability event.
CallbackLiability(liab, callback_type, payload, id, new_status) ==
    IF IsReturnCase(callback_type, new_status)
    THEN RecordLiabilityEvent(liab,
             <<"return", payload.provider_request_id, payload.return_code>>, id,
             ClassifyReturn(DefaultRail, ReturnCodeOr(payload)), instructions[id].amount)
    ELSE liab

\* The events of the return case and of the settlement case.
CallbackEvents(callback_type, payload, id, new_status) ==
    IF IsReturnCase(callback_type, new_status)
    THEN Emit(Emit(<<>>, [type |-> "PaymentReturned", subject |-> id,
                          amount |-> instructions[id].amount]),
              [type |-> "LiabilityClassified", subject |-> id,
               amount |-> instructions[id].amount,
               classification |-> ClassifyReturn(DefaultRail, ReturnCodeOr(payload))])
    ELSE IF IsSettlementCase(callback_type, new_status)
    THEN Emit(<<>>, [type |-> "PaymentSettled", subject |-> id,
                     amount |-> instructions[id].amount])
    ELSE <<>>

\* The status written to the row without the orchestrator.
CallbackInstructionsDirect(instrs, id, new_status) ==
    [instrs EXCEPT ![id].status = new_status, ![id].path = Append(@, new_status)]

\* Update instruction status via orchestrator.
CallbackInstructions(instrs, id, new_status) == UpdateStatus(instrs, id, new_status)

CallbackResult(status, id, previous_status, new_status) ==
    [op |-> "callback", status |-> status, payment_instruction_id |-> id,
     previous_status |-> previous_status, new_status |-> new_status]

\* The callback with the reference looked up before the provider is.
HandleProviderCallbackLookupFirst(tenant, provider_name, callback_type, payload) ==
    LET id       == FindInstructionByProviderRef(tenant, payload.provider_request_id)
        previous == instructions[id].status
        new      == CallbackNewStatus(payload, previous)
    IN  /\ calls < MaxCalls
        /\ calls' = calls + 1
        /\ delivered' = delivered \cup {<<tenant, provider_name, payload>>}
        /\ IF payload.provider_request_id = NoId
           THEN /\ result' = WithCorrelation(CallbackResult("invalid", NoId, Absent, Absent))
                /\ emitted' = <<>>
                /\ UNCHANGED <<instructions, liabilityEvents>>
           ELSE IF id = NoId
           THEN /\ result' = WithCorrelation(CallbackResult("unknown", NoId, Absent, Absent))
                /\ emitted' = <<>>
                /\ UNCHANGED <<instructions, liabilityEvents>>
           ELSE IF provider_name \notin providers
           THEN /\ result' = WithCorrelation(CallbackResult("invalid", NoId, Absent, Absent))
                /\ emitted' = <<>>
                /\ UNCHANGED <<instructions, liabilityEvents>>
           ELSE IF previous = new
           THEN /\ result' = WithCorrelation(CallbackResult("duplicate", id, previous, new))
                /\ emitted' = <<>>
                /\ UNCHANGED <<instructions, liabilityEvents>>
           ELSE /\ liabilityEvents' =
                       CallbackLiability(liabilityEvents, callback_type, payload, id, new)
                /\ emitted' = CallbackEvents(callback_type, payload, id, new)
                /\ instructions' = CallbackInstructions(instructions, id, new)
                /\ result' = WithCorrelation(CallbackResult("processed", id, previous, new))
        /\ UNCHANGED <<config, providers, gateEvals, reservations, ledger, attempts,
                       settlementEvents>>

HandleProviderCallback(tenant, provider_name, callback_type, payload) ==
    LET id       == FindInstructionByProviderRef(tenant, payload.provider_request_id)
        previous == instructions[id].status
        new      == CallbackNewStatus(payload, previous)
    IN  /\ calls < MaxCalls
        /\ calls' = calls + 1
        /\ delivered' = delivered \cup {<<tenant, provider_name, payload>>}
        /\ IF provider_name \notin providers \/ payload.provider_request_id = NoId
           THEN /\ result' = WithCorrelation(CallbackResult("invalid", NoId, Absent, Absent))
                /\ emitted' = <<>>
                /\ UNCHANGED <<instructions, liabilityEvents>>
           ELSE IF id = NoId
           THEN /\ result' = WithCorrelation(CallbackResult("unknown", NoId, Absent, Absent))
                /\ emitted' = <<>>
                /\ UNCHANGED <<instructions, liabilityEvents>>
           ELSE IF previous = new
           THEN /\ result' = WithCorrelation(CallbackResult("duplicate", id, previous, new))
                /\ emitted' = <<>>
                /\ UNCHANGED <<instructions, liabilityEvents>>
           ELSE /\ liabilityEvents' =
                       CallbackLiability(liabilityEvents, callback_type, payload, id, new)
                /\ emitted' = CallbackEvents(callback_type, payload, id, new)
                /\ instructions' = CallbackInstructions(instructions, id, new)
                /\ result' = WithCorrelation(CallbackResult("processed", id, previous, new))
        /\ UNCHANGED <<config, providers, gateEvals, reservations, ledger, attempts,
                       settlementEvents>>

\* What providers send: the reference (known, or one that matches nothing),
\* the callback type, the status (or none) and a return code (or none).
UnknownRef == MaxAttempts + 1

CallbackShapes ==
    {<<"status_update", "accepted", Absent>>,
     <<"status_update", "failed", Absent>>,
     <<"status_update", "returned", "R99">>,
     <<"settlement", "settled", Absent>>,
     <<"return", "returned", "R01">>,
     <<"return", "returned", Absent>>,
     <<"return", "settled", "R01">>,
     <<"return", Absent, "R01">>}

\* A reference that matches nothing, or a payload without a reference, is
\* answered before the rest of the payload is read, so one shape stands for
\* all of them.
CallbackPayloads ==
    {[provider_request_id |-> prid, status |-> sh[2], return_code |-> sh[3],
      callback_type |-> sh[1]] :
        prid \in DOMAIN attempts, sh \in CallbackShapes}
    \cup {[provider_request_id |-> UnknownRef, status |-> "settled",
            return_code |-> Absent, callback_type |-> "settlement"],
          [provider_request_id |-> NoId, status |-> "settled",
            return_code |-> Absent, callback_type |-> "settlement"]}

\* What reaches the facade under another tenant with a reference of this
\* tenant's attempts: a return, which would act on the instruction if found.
ForeignCallbackPayloads ==
    {[provider_request_id |-> prid, status |-> "returned", return_code |-> "R01",
      callback_type |-> "return"] : prid \in DOMAIN attempts}

\* ---------------------------------------------------------- reconciliation
PayableAccount(purpose) ==
    CASE purpose = "tax_payment" -> "client_tax_impound_payable"
      [] purpose = "vendor_payment" -> "client_third_party_payable"
      [] OTHER -> "client_net_pay_payable"

HasPosting(entries, corr) == \E i \in DOMAIN entries : entries[i].corr = corr

\* A posting whose first entry alone reaches the table.
PostFirstEntry(entries, corr, new) ==
    IF HasPosting(entries, corr) \/ new = <<>> THEN entries ELSE Append(entries, new[1])

\* post: all entries of the posting or none; idempotent on the key.
Post(entries, corr, new) == IF HasPosting(entries, corr) THEN entries ELSE entries \o new

SettlementPosting(row, id) ==
    <<Entry(<<"settle", id>>, PayableAccount(row.purpose), "debit", row.amount),
      Entry(<<"settle", id>>, "psp_settlement_clearing", "credit", row.amount)>>

Flip(direction) == IF direction = "debit" THEN "credit" ELSE "debit"

RECURSIVE InverseOf(_, _, _)
InverseOf(entries, corr, newcorr) ==
    IF entries = <<>> THEN <<>>
    ELSE (IF entries[1].corr = corr
          THEN <<Entry(newcorr, entries[1].account, Flip(entries[1].direction),
                       entries[1].amount)>>
          ELSE <<>>) \o InverseOf(Tail(entries), corr, newcorr)

\* Match: exact trace, else a unique outstanding instruction of that amount.
MatchRecord(instrs, tenant, rec) ==
    LET byAmount == {i \in DOMAIN instrs :
                        /\ instrs[i].tenant_id = tenant
                        /\ instrs[i].amount = rec.amount
                        /\ instrs[i].status \in {"submitted", "accepted"}}
    IN  IF /\ rec.external_trace_id \in DOMAIN attempts
           /\ instrs[attempts[rec.external_trace_id].instruction_id].tenant_id = tenant
        THEN attempts[rec.external_trace_id].instruction_id
        ELSE IF Cardinality(byAmount) = 1 THEN CHOOSE i \in byAmount : TRUE
        ELSE NoId

TargetStatus(rec) == IF rec.status = "return" THEN "returned" ELSE "settled"

\* Post: the ledger consequence of a matched record.
ReconcilePosting(entries, instrs, id, rec) ==
    IF rec.status = "return"
    THEN Post(entries, <<"reverse", id>>,
              InverseOf(entries, <<"settle", id>>, <<"reverse", id>>))
    ELSE Post(entries, <<"settle", id>>, SettlementPosting(instrs[id], id))

\* Every record taken as new.
IsDuplicateNever(events, key, rec) == FALSE

\* Upsert: a record whose settlement event is already there and dealt with.
IsDuplicate(events, key, rec) ==
    /\ key \in DOMAIN events
    /\ events[key].record_status = rec.status
    /\ events[key].status # "unmatched"

\* One record of the feed: upsert, match, post.
ReconcileRecord(st, tenant, provider_name, rec) ==
    LET key == <<tenant, provider_name, rec.external_trace_id>>
        dup == IsDuplicate(st.settlementEvents, key, rec)
        id  == MatchRecord(st.instructions, tenant, rec)
        put(status) == [k \in DOMAIN st.settlementEvents \cup {key} |->
                           IF k = key THEN [status |-> status, record_status |-> rec.status]
                           ELSE st.settlementEvents[k]]
    IN  IF dup THEN st
        ELSE IF id = NoId
        THEN [st EXCEPT !.settlementEvents = put("unmatched"),
                        !.processed = @ + 1,
                        !.errors = Append(@, [trace_id |-> rec.external_trace_id,
                                              error |-> "unmatched"])]
        ELSE IF ~Legal(st.instructions[id].status, TargetStatus(rec))
        THEN [st EXCEPT !.settlementEvents = put("received"),
                        !.processed = @ + 1,
                        !.failed = @ + 1]
        ELSE [st EXCEPT
                 !.settlementEvents =
                     put(IF rec.status = "return" THEN "returned" ELSE "matched"),
                 !.instructions = UpdateStatus(@, id, TargetStatus(rec)),
                 !.ledger = ReconcilePosting(@, st.instructions, id, rec),
                 !.liabilityEvents =
                     IF rec.status = "return"
                     THEN RecordLiabilityEvent(@, <<"settlement_return",
                              rec.external_trace_id, rec.return_code>>, id,
                              ClassifyReturn(provider_name, rec.return_code),
                              st.instructions[id].amount)
                     ELSE @,
                 !.processed = @ + 1,
                 !.matched = @ + 1]

\* run_reconciliation over the records pulled from the provider.
RECURSIVE RunReconciliation(_, _, _, _)
RunReconciliation(st, tenant, provider_name, pulled) ==
    IF pulled = <<>> THEN st
    ELSE RunReconciliation(ReconcileRecord(st, tenant, provider_name, pulled[1]),
                           tenant, provider_name, Tail(pulled))

\* --------------------------------------------------- ingest_settlement_feed
\* The status taken from the failed records alone.
IngestStatusFailedOnly(rr) ==
    IF rr.failed = 0 THEN "success"
    ELSE IF rr.processed > rr.failed THEN "partial"
    ELSE "failed"

\* Determine status: success, partial or failed.
IngestStatus(rr) ==
    IF rr.failed = 0 /\ Len(rr.errors) = 0 THEN "success"
    ELSE IF rr.processed > rr.failed THEN "partial"
    ELSE "failed"

HasTraceId(e) == e.trace_id # NoId

TraceIdsOf(errors) == [i \in DOMAIN errors |-> errors[i].trace_id]

\* The errors that carry no trace id taken instead of those that carry one.
UnmatchedTraceIdsInverted(errors) ==
    LET NoTraceId(e) == ~HasTraceId(e) IN TraceIdsOf(SelectSeq(errors, NoTraceId))

\* Build unmatched trace IDs from errors: those that carry a trace id.
UnmatchedTraceIds(errors) == TraceIdsOf(SelectSeq(errors, HasTraceId))

RECURSIVE ReceivedEvents(_, _)
ReceivedEvents(log, records) ==
    IF records = <<>> THEN log
    ELSE ReceivedEvents(Emit(log, [type |-> "SettlementReceived",
                                   subject |-> records[1].external_trace_id,
                                   amount |-> records[1].amount]),
                        Tail(records))

\* The completion event counting the records handed in, not those processed.
IngestEventsFeedCount(records, rr) ==
    Emit(ReceivedEvents(Emit(<<>>, [type |-> "ReconciliationStarted", subject |-> NoId,
                                    amount |-> 0]),
                        records),
         [type |-> "ReconciliationCompleted", subject |-> NoId, amount |-> 0,
          records_processed |-> Len(records), records_matched |-> rr.matched,
          records_created |-> rr.created, records_failed |-> rr.failed,
          unmatched_count |-> Len(rr.errors)])

IngestEvents(records, rr) ==
    Emit(ReceivedEvents(Emit(<<>>, [type |-> "ReconciliationStarted", subject |-> NoId,
                                    amount |-> 0]),
                        records),
         [type |-> "ReconciliationCompleted", subject |-> NoId, amount |-> 0,
          records_processed |-> rr.processed, records_matched |-> rr.matched,
          records_created |-> rr.created, records_failed |-> rr.failed,
          unmatched_count |-> Len(rr.errors)])

IngestResult(status, processed, matched, created, failed, unmatched) ==
    [op |-> "ingest", status |-> status, records_processed |-> processed,
     records_matched |-> matched, records_created |-> created,
     records_failed |-> failed, unmatched_trace_ids |-> unmatched]

IngestSettlementFeed(tenant, provider_name, records, pulled) ==
    LET st0 == [instructions |-> instructions, ledger |-> ledger,
                settlementEvents |-> settlementEvents,
                liabilityEvents |-> liabilityEvents,
                processed |-> 0, matched |-> 0, created |-> 0, failed |-> 0,
                errors |-> <<>>]
        rr  == RunReconciliation(st0, tenant, provider_name, pulled)
    IN  /\ calls < MaxCalls
        /\ calls' = calls + 1
        /\ IF provider_name \notin providers
           THEN /\ result' = WithCorrelation(IngestResult("failed", 0, 0, 0, 0, <<>>))
                /\ emitted' = <<>>
                /\ UNCHANGED <<instructions, ledger, settlementEvents, liabilityEvents>>
           ELSE /\ instructions' = rr.instructions
                /\ ledger' = rr.ledger
                /\ settlementEvents' = rr.settlementEvents
                /\ liabilityEvents' = rr.liabilityEvents
                /\ emitted' = IngestEvents(records, rr)
                /\ result' = WithCorrelation(
                                 IngestResult(IngestStatus(rr), rr.processed, rr.matched,
                                              rr.created, rr.failed,
                                              UnmatchedTraceIds(rr.errors)))
        /\ UNCHANGED <<config, providers, gateEvals, reservations, attempts, delivered>>

SettlementRecord(trace, status, amount, code) ==
    [external_trace_id |-> trace, status |-> status, amount |-> amount,
     return_code |-> code]

\* The feeds a provider hands over: one record for a submitted payment (its
\* settlement or its return), a record that belongs to no attempt, or the
\* same record twice.
Feeds ==
    UNION {{<<SettlementRecord(t, "success", instructions[attempts[t].instruction_id].amount,
                               Absent)>>,
             <<SettlementRecord(t, "return", instructions[attempts[t].instruction_id].amount,
                                "R01")>>} : t \in DOMAIN attempts}
    \cup {<<SettlementRecord(UnknownRef, "success", 7, Absent)>>,
          <<SettlementRecord(UnknownRef, "success", 2, Absent)>>,
          <<SettlementRecord(1, "success", 2, Absent),
            SettlementRecord(1, "success", 2, Absent)>>}

\* A held reservation leaves the held state outside the facade: released
\* explicitly, or expired after its TTL.
LapsedStates == {"released", "expired"}

ReservationLapses(rid, to) ==
    /\ reservations[rid].status = "held"
    /\ reservations' = [reservations EXCEPT ![rid].status = to]
    /\ UNCHANGED <<config, providers, gateEvals, ledger, instructions, attempts,
                   settlementEvents, liabilityEvents, emitted, result, delivered, calls>>

\* register_provider
RegisterProvider(name) ==
    /\ calls < MaxCalls
    /\ calls' = calls + 1
    /\ providers' = providers \cup {name}
    /\ emitted' = <<>>
    /\ result' = [op |-> "register"]
    /\ UNCHANGED <<config, gateEvals, reservations, ledger, instructions, attempts,
                   settlementEvents, liabilityEvents, delivered>>

\* ------------------------------------------------------------ specification
\* The configurations: the default one (commit gate not strict, pay gate
\* enforced) and those that differ from it in one gate flag; an emitter is
\* configured.
Configs ==
    {c \in [commit_gate_strict : BOOLEAN, pay_gate_always_enforced : BOOLEAN,
             emit_events : {TRUE}] :
        ~c.commit_gate_strict \/ c.pay_gate_always_enforced}

\* The database the facade is constructed on holds the earlier cycle of BatchP:
\* its gate evaluations, its consumed reservation, its accepted instruction.
PriorCommitGate ==
    CommitGatePolicy(BatchP.pay_period_id, DefaultFundingModel, FALSE,
                     [posted |-> InitialFunding, reserved |-> 0,
                      available |-> InitialFunding])

PriorPayGate ==
    GateResult("pay", BatchP.batch_id, <<>>, InitialFunding - SumAmounts(BatchP.items),
               PayRunNet[BatchP.pay_period_id])

PriorInstruction ==
    [tenant_id |-> BatchP.tenant_id, key |-> ItemKey(BatchP.batch_id, BatchP.items[1]),
     batch_id |-> BatchP.batch_id, purpose |-> "employee_net",
     payee |-> BatchP.items[1].payee, amount |-> BatchP.items[1].amount,
     status |-> "accepted", path |-> <<"draft", "submitted", "accepted">>]

PriorAttempt ==
    [instruction_id |-> 1, provider_name |-> DefaultRail, attempt_no |-> 1,
     status |-> "accepted", sends |-> 1]

Init ==
    /\ config \in Configs
    /\ providers = {DefaultRail, "fednow"}
    /\ gateEvals = (<<"commit_gate", BatchP.idempotency_key>> :> PriorCommitGate)
                   @@ (IF config.pay_gate_always_enforced
                       THEN (<<"pay_gate", BatchP.batch_id>> :> PriorPayGate)
                       ELSE <<>>)
    /\ reservations = <<[source_id |-> BatchP.batch_id,
                         amount |-> SumAmounts(BatchP.items), status |-> "consumed"]>>
    /\ ledger = <<Entry(<<"fund", 0>>, "psp_settlement_clearing", "debit", InitialFunding),
                  Entry(<<"fund", 0>>, FundingAccount, "credit", InitialFunding)>>
    /\ instructions = <<PriorInstruction>>
    /\ attempts = <<PriorAttempt>>
    /\ settlementEvents = <<>>
    /\ liabilityEvents = <<>>
    /\ emitted = <<>>
    /\ result = [op |-> "none"]
    /\ delivered = {}
    /\ calls = 0

\* A provider reports on the attempts it was sent; a reference that matches no
\* attempt comes under the name of the default rail or of the rail that is not
\* registered at the start.
SendersOf(ref) ==
    IF ref \in DOMAIN attempts THEN {attempts[ref].provider_name}
    ELSE {DefaultRail, "rtp"}

Next ==
    \/ \E b \in Batches : CommitPayrollBatch(b)
    \/ \E r \in Rails \ providers : RegisterProvider(r)
    \/ \E rid \in DOMAIN reservations : \E to \in LapsedStates : ReservationLapses(rid, to)
    \/ \E req \in ExecRequests : \E oc \in [DOMAIN req.items -> Outcomes] :
           ExecutePayments(req, oc)
    \/ \E pl \in CallbackPayloads : \E pn \in SendersOf(pl.provider_request_id) :
           HandleProviderCallback("T1", pn, pl.callback_type, pl)
    \/ \E pl \in ForeignCallbackPayloads :
           HandleProviderCallback("T2", attempts[pl.provider_request_id].provider_name,
                                  pl.callback_type, pl)
    \/ \E feed \in Feeds : \E pn \in SendersOf(feed[1].external_trace_id) :
           IngestSettlementFeed("T1", pn, feed, feed)

Spec == Init /\ [][Next]_vars

\* ================================================================== claims
\* A step of execute_payments that reached the provider or created a row.
ExecReached(req, oc) ==
    /\ ExecutePayments(req, oc)
    /\ (instructions' # instructions \/ attempts' # attempts)

\* C1: execute_payments creates an instruction or submits to the provider only
\* when the pay gate of that batch was evaluated in the call and passed, under
\* every configuration.
C1_PayGateNeverSkipped ==
    [][\A req \in ExecRequests : \A oc \in [DOMAIN req.items -> Outcomes] :
          ExecReached(req, oc) =>
              /\ <<"pay_gate", req.batch_id>> \in DOMAIN gateEvals'
              /\ gateEvals'[<<"pay_gate", req.batch_id>>].passed]_vars

\* C2: a submission for a batch happens only after a commit of that batch
\* created a reservation, and only with the reservation_id passed.
C2_SubmitOnlyAfterReservation ==
    [][\A req \in ExecRequests : \A oc \in [DOMAIN req.items -> Outcomes] :
          (ExecutePayments(req, oc) /\ attempts' # attempts) =>
              /\ req.reservation_id # NoId
              /\ \E i \in DOMAIN reservations :
                     reservations[i].source_id = req.batch_id]_vars

LegalPath(p) ==
    /\ p[1] = "draft"
    /\ \A k \in 1..(Len(p) - 1) : Legal(p[k], p[k + 1])

PaymentEventTypes == {"PaymentReturned", "LiabilityClassified", "PaymentSettled"}

\* A processed callback for a known instruction whose status is no legal
\* transition from the instruction's current status.
IllegalCallback(pn, pl) ==
    /\ HandleProviderCallback("T1", pn, pl.callback_type, pl)
    /\ pn \in providers
    /\ FindInstructionByProviderRef("T1", pl.provider_request_id) # NoId
    /\ LET id == FindInstructionByProviderRef("T1", pl.provider_request_id)
           new == CallbackNewStatus(pl, instructions[id].status)
       IN  new # instructions[id].status /\ ~Legal(instructions[id].status, new)

\* C4: a callback with an illegal transition mutates nothing: status kept, no
\* liability event, no PaymentReturned, LiabilityClassified or PaymentSettled.
C4_IllegalCallbackMutatesNothing ==
    [][\A pl \in CallbackPayloads : \A pn \in Rails :
          IllegalCallback(pn, pl) =>
              /\ instructions' = instructions
              /\ liabilityEvents' = liabilityEvents
              /\ \A k \in DOMAIN emitted' : emitted'[k].type \notin PaymentEventTypes]_vars

\* C5: commit_payroll_batch repeated with the same batch and idempotency key
\* returns the first reservation, adds no reservation and emits no event.
C5_CommitIdempotent ==
    [][\A b \in Batches :
          (CommitPayrollBatch(b)
              /\ <<"commit_gate", b.idempotency_key>> \in DOMAIN gateEvals) =>
              /\ reservations' = reservations
              /\ emitted' = <<>>
              /\ (result'.reservation_id # NoId =>
                      \A i \in DOMAIN reservations :
                          reservations[i].source_id = b.batch_id
                              => result'.reservation_id = i)]_vars

\* C6: when the commit gate does not pass, no reservation is created and
\* nothing is posted; the result is blocked with reservation_id None,
\* approved_count 0 and blocked_count the number of items.
C6_BlockedCommitCreatesNothing ==
    [][\A b \in Batches :
          (CommitPayrollBatch(b)
              /\ ~gateEvals'[<<"commit_gate", b.idempotency_key>>].passed) =>
              /\ result'.reservation_id = NoId
              /\ result'.approved_count = 0
              /\ result'.blocked_count = Len(b.items)
              /\ result'.status \in {"blocked_funds", "blocked_policy"}
              /\ reservations' = reservations
              /\ ledger' = ledger]_vars

\* C6 witness: a commit the strict gate blocked for funds.
C6_Witness ==
    /\ result.op = "commit"
    /\ result.status = "blocked_funds"
    /\ result.reservation_id = NoId
    /\ result.blocked_count > 0

\* C7: under commit_gate_strict the held reservations never exceed the posted
\* balance: available >= 0 after every approved commit.
C7_StrictNeverOverReserves ==
    [][\A b \in Batches :
          (CommitPayrollBatch(b) /\ config.commit_gate_strict
              /\ result'.status = "approved") =>
              GetBalance(ledger', reservations').available >= 0]_vars

\* C8: at every submission of execute_payments a held reservation of the batch
\* covers the total of the items submitted (stated for the configurations in
\* which the pay gate is evaluated).
C8_HeldReservationCoversSubmission ==
    [][\A req \in ExecRequests : \A oc \in [DOMAIN req.items -> Outcomes] :
          (ExecutePayments(req, oc) /\ attempts' # attempts
              /\ config.pay_gate_always_enforced) =>
              \E i \in DOMAIN reservations :
                  /\ reservations[i].status = "held"
                  /\ reservations[i].source_id = req.batch_id
                  /\ reservations[i].amount >= SumAmounts(req.items)]_vars

\* A return callback for a known instruction in accepted or settled.
ReturnCallback(pn, pl) ==
    /\ pl.callback_type = "return"
    /\ HandleProviderCallback("T1", pn, pl.callback_type, pl)
    /\ pn \in providers
    /\ FindInstructionByProviderRef("T1", pl.provider_request_id) # NoId
    /\ instructions[FindInstructionByProviderRef("T1", pl.provider_request_id)].status
           \in {"accepted", "settled"}

\* C9: every return callback for a known accepted or settled instruction
\* records a liability event for it and leaves it returned, whatever the
\* payload's status field holds.
C9_ReturnCallbackClassifies ==
    [][\A pl \in CallbackPayloads : \A pn \in Rails :
          ReturnCallback(pn, pl) =>
              LET id == FindInstructionByProviderRef("T1", pl.provider_request_id)
              IN  /\ instructions'[id].status = "returned"
                  /\ \E k \in DOMAIN liabilityEvents' :
                         liabilityEvents'[k].source_id = id]_vars

RECURSIVE NetOf(_, _, _)
NetOf(entries, id, account) ==
    IF entries = <<>> THEN 0
    ELSE (IF entries[1].corr \in {<<"settle", id>>, <<"reverse", id>>}
          THEN Signed(entries[1], account) ELSE 0) + NetOf(Tail(entries), id, account)

Accounts ==
    {FundingAccount, "client_net_pay_payable", "client_tax_impound_payable",
     "client_third_party_payable", "psp_settlement_clearing", "psp_fees_revenue"}

\* C10: when a settled payment is returned its settlement posting is reversed,
\* so every account is back at its balance before the settlement posting, and
\* the ledger only grew.
C10_ReturnReversesSettlement ==
    [][\A i \in DOMAIN instructions :
          (instructions[i].status = "settled" /\ instructions'[i].status = "returned") =>
              /\ SubSeq(ledger', 1, Len(ledger)) = ledger
              /\ \A a \in Accounts : NetOf(ledger', i, a) = 0]_vars

\* A callback delivered again: same provider, callback type and payload as a
\* delivery made before, for a known instruction of a registered provider.
Redelivery(pn, pl) ==
    /\ HandleProviderCallback("T1", pn, pl.callback_type, pl)
    /\ <<"T1", pn, pl>> \in delivered
    /\ pn \in providers
    /\ FindInstructionByProviderRef("T1", pl.provider_request_id) # NoId

\* C11: the second delivery of a callback returns duplicate with
\* previous_status = new_status and changes nothing: no status update, no
\* further liability event, no further domain event.
C11_CallbackIdempotent ==
    [][\A pl \in CallbackPayloads : \A pn \in Rails :
          Redelivery(pn, pl) =>
              /\ result'.status = "duplicate"
              /\ result'.previous_status = result'.new_status
              /\ instructions' = instructions
              /\ liabilityEvents' = liabilityEvents
              /\ emitted' = <<>>]_vars

\* The instructions whose status a step changed (a new row counts).
StatusChanged ==
    {i \in DOMAIN instructions' :
        i \in DOMAIN instructions => instructions'[i].status # instructions[i].status}

\* C12: every status change made by execute_payments or by
\* handle_provider_callback comes with at least one domain event for that
\* instruction, emitted in the same operation.
C12_StatusChangeEmitsEvent ==
    [][result'.op \in {"execute", "callback"} =>
          \A i \in StatusChanged :
              \E k \in DOMAIN emitted' : emitted'[k].subject = i]_vars

\* The held amounts, summed over the rows one by one.
RECURSIVE HeldTotal(_, _)
HeldTotal(res, ids) ==
    IF ids = {} THEN 0
    ELSE LET i == CHOOSE j \in ids : TRUE
         IN  (IF res[i].status = "held" THEN res[i].amount ELSE 0)
                 + HeldTotal(res, ids \ {i})

\* The failure entries of the items that were not accepted, in item order.
RECURSIVE FailuresOf(_, _)
FailuresOf(items, outcomes) ==
    IF items = <<>> THEN <<>>
    ELSE (IF outcomes[1] = "accept" THEN <<>>
          ELSE <<[payee_ref_id |-> items[1].payee, amount |-> items[1].amount,
                  error |-> outcomes[1]]>>)
         \o FailuresOf(Tail(items), Tail(outcomes))

\* The outcome vector agrees with the failures the result reports: the calls
\* that return before the loop report one entry that names no item, the loop
\* reports the items that were not accepted with their errors.
OutcomesReported(req, oc) ==
    \/ result'.status = "blocked"
    \/ result'.failures = <<[error |-> "No provider registered"]>>
    \/ result'.failures = FailuresOf(req.items, oc)

\* The reservation an execute_payments step moved from held to consumed.
ConsumedBy(req) ==
    IF /\ req.reservation_id # NoId
       /\ reservations[req.reservation_id].status = "held"
       /\ reservations'[req.reservation_id].status = "consumed"
    THEN reservations[req.reservation_id].amount
    ELSE 0

\* C13: available = posted - (sum of the held reservations) after every step
\* (available is a function of the ledger and the reservations, so the steps
\* that leave both alone need no second look once a first call was made);
\* an approved commit creates one held reservation of the batch total, which
\* lowers available by exactly its amount and leaves posted alone; consuming
\* it in execute_payments raises available by that amount.
C13_AvailableIsPostedMinusHeld ==
    [][LET bal  == GetBalance(ledger, reservations)
           bal2 == GetBalance(ledger', reservations')
       IN  /\ (ledger' # ledger \/ reservations' # reservations \/ calls = 0) =>
                  bal2.available =
                      PostedIn(ledger', FundingAccount)
                          - HeldTotal(reservations', DOMAIN reservations')
           /\ \A b \in Batches :
                  (/\ result'.op = "commit"
                   /\ result'.status = "approved"
                   /\ CommitPayrollBatch(b)) =>
                      LET rid == result'.reservation_id
                      IN  /\ rid \notin DOMAIN reservations
                          /\ reservations'[rid].status = "held"
                          /\ reservations'[rid].amount = SumAmounts(b.items)
                          /\ bal2.available = bal.available - reservations'[rid].amount
                          /\ bal2.posted = bal.posted
           /\ \A req \in ExecRequests :
                  (result'.op = "execute" /\ result'.batch_id = req.batch_id) =>
                  \A oc \in [DOMAIN req.items -> Outcomes] :
                  (/\ result'.op = "execute"
                   /\ OutcomesReported(req, oc)
                   /\ ExecutePayments(req, oc)) =>
                      /\ bal2.posted = bal.posted
                      /\ bal2.available = bal.available + ConsumedBy(req)]_vars

\* C13 witness: an execute_payments that consumed the reservation a commit of
\* its batch had made, so that nothing is held any more.
C13_Witness ==
    /\ result.op = "execute"
    /\ result.status = "success"
    /\ \E i \in DOMAIN reservations :
           /\ reservations[i].source_id = result.batch_id
           /\ reservations[i].source_id # BatchP.batch_id
           /\ reservations[i].status = "consumed"
    /\ GetBalance(ledger, reservations).available
           = GetBalance(ledger, reservations).posted

RECURSIVE SideTotal(_, _, _)
SideTotal(entries, corr, direction) ==
    IF entries = <<>> THEN 0
    ELSE (IF entries[1].corr = corr /\ entries[1].direction = direction
          THEN entries[1].amount ELSE 0) + SideTotal(Tail(entries), corr, direction)

PostingsOf(entries) == {entries[i].corr : i \in DOMAIN entries}

CompletedEvents == {k \in DOMAIN emitted : emitted[k].type = "ReconciliationCompleted"}

Linked(pn, rec) ==
    IsDuplicate(settlementEvents, <<"T1", pn, rec.external_trace_id>>, rec)

\* The trace ids of the records of a feed that match no instruction.
RECURSIVE UnmatchedIn(_, _)
UnmatchedIn(pn, records) ==
    IF records = <<>> THEN <<>>
    ELSE (IF ~Linked(pn, records[1]) /\ MatchRecord(instructions, "T1", records[1]) = NoId
          THEN <<records[1].external_trace_id>> ELSE <<>>)
         \o UnmatchedIn(pn, Tail(records))

NewTraces(pn, feed) ==
    {feed[i].external_trace_id : i \in {j \in DOMAIN feed : ~Linked(pn, feed[j])}}

EntriesOf(entries, corr) == Cardinality({i \in DOMAIN entries : entries[i].corr = corr})

RECURSIVE TotalSends(_)
TotalSends(atts) == IF atts = <<>> THEN 0 ELSE atts[1].sends + TotalSends(Tail(atts))

\* The loop of execute_payments is reached: provider registered, pay gate open.
LoopReached(req) ==
    /\ req.rail \in providers
    /\ PayGateOpen(Replay(gateEvals, <<"pay_gate", req.batch_id>>,
                          PayGatePolicy(gateEvals, reservations, ledger, req.batch_id)))

\* The outcome vector agrees with the number of items the result reports as
\* submitted.
AcceptedReported(oc) ==
    result'.submitted_count = Cardinality({k \in DOMAIN oc : oc[k] = "accept"})

\* The item is the only one of the request with its idempotency key.
OwnKey(req, k) ==
    \A j \in DOMAIN req.items :
        j # k => ItemKey(req.batch_id, req.items[j]) # ItemKey(req.batch_id, req.items[k])

\* C19: once the loop of execute_payments is reached, every item is created
\* and sent to the provider once whatever happened to the others (one send
\* per item; an item that shares its key with no other leaves an attempt of
\* its own outcome), submitted_count + failed_count is the number of items,
\* and failures holds one entry (payee_ref_id, amount, error) per item not
\* accepted, in item order.
C19_PerItemFailureIsolation ==
    [][\A req \in ExecRequests :
          (result'.op = "execute" /\ result'.batch_id = req.batch_id) =>
          \A oc \in [DOMAIN req.items -> Outcomes] :
          (/\ result'.op = "execute"
           /\ AcceptedReported(oc)
           /\ LoopReached(req)
           /\ ExecutePayments(req, oc)) =>
              /\ result'.submitted_count + result'.failed_count = Len(req.items)
              /\ result'.failures = FailuresOf(req.items, oc)
              /\ TotalSends(attempts') = TotalSends(attempts) + Len(req.items)
              /\ \A k \in DOMAIN req.items :
                     OwnKey(req, k) =>
                         \E i \in FindByKey(instructions', req.tenant_id,
                                            ItemKey(req.batch_id, req.items[k])) :
                             \E a \in AttemptsOf(attempts', i) :
                                 /\ attempts'[a].status = AttemptStatus(oc[k])
                                 /\ a \in DOMAIN attempts =>
                                        attempts'[a].sends = attempts[a].sends + 1]_vars

\* C19 witness: the first item of a batch of two was rejected and the second
\* was still submitted and accepted.
C19_Witness ==
    /\ result.op = "execute"
    /\ result.status = "partial"
    /\ result.submitted_count = 1
    /\ result.failures = <<[payee_ref_id |-> BatchA.items[1].payee,
                            amount |-> BatchA.items[1].amount, error |-> "reject"]>>
    /\ \E i \in DOMAIN instructions :
           /\ instructions[i].payee = BatchA.items[2].payee
           /\ instructions[i].status = "accepted"

\* The instruction execute_payments made or found for an item.
InstructionOf(instrs, req, item) ==
    CHOOSE i \in FindByKey(instrs, req.tenant_id, ItemKey(req.batch_id, item)) : TRUE

\* C20: when the submit call of an item times out, its attempt is recorded as
\* submit_unknown, its instruction (a new one) stays submitted, and the facade
\* does not report the item as a provider failure that cannot be retried.
C20_TimeoutIsNotAFailure ==
    [][\A req \in ExecRequests :
          (result'.op = "execute" /\ result'.batch_id = req.batch_id) =>
          \A oc \in [DOMAIN req.items -> Outcomes] :
          (/\ result'.op = "execute"
           /\ LoopReached(req)
           /\ ExecutePayments(req, oc)) =>
              \A k \in DOMAIN req.items :
                  (/\ oc[k] = "timeout"
                   /\ FindByKey(instructions, req.tenant_id,
                                ItemKey(req.batch_id, req.items[k])) = {}) =>
                      LET i == InstructionOf(instructions', req, req.items[k])
                      IN  /\ attempts'[LastAttempt(attempts', i)].status = "submit_unknown"
                          /\ instructions'[i].status = "submitted"
                          /\ ~\E e \in DOMAIN emitted' :
                                 /\ emitted'[e].type = "PaymentFailed"
                                 /\ emitted'[e].subject = i
                                 /\ ~emitted'[e].is_retryable
                                 /\ emitted'[e].error_origin = "provider"]_vars

\* C21: in an execute_payments call for several items that were all accepted,
\* every PaymentInstructionCreated event comes before every PaymentSubmitted
\* event.
C21_CreatedBeforeSubmitted ==
    [][\A req \in ExecRequests : \A oc \in [DOMAIN req.items -> {"accept"}] :
          (/\ result'.op = "execute"
           /\ result'.batch_id = req.batch_id
           /\ Len(req.items) > 1
           /\ LoopReached(req)
           /\ ExecutePayments(req, oc)) =>
              \A c, s \in DOMAIN emitted' :
                  (/\ emitted'[c].type = "PaymentInstructionCreated"
                   /\ emitted'[s].type = "PaymentSubmitted") => c < s]_vars

EventsOfType(log, type) == {k \in DOMAIN log : log[k].type = type}

\* The instructions a step moved to settled.
MovedToSettled ==
    {i \in DOMAIN instructions :
        instructions[i].status # "settled" /\ instructions'[i].status = "settled"}

\* C22: an ingest_settlement_feed call with a registered provider emits
\* ReconciliationStarted first, ReconciliationCompleted last, between them one
\* SettlementReceived per record the run processed and then one
\* PaymentSettled per instruction the run moved to settled.
C22_IngestEventOrder ==
    [][\A feed \in Feeds : \A pn \in providers :
          (result'.op = "ingest" /\ IngestSettlementFeed("T1", pn, feed, feed)) =>
              /\ emitted'[1].type = "ReconciliationStarted"
              /\ emitted'[Len(emitted')].type = "ReconciliationCompleted"
              /\ Cardinality(EventsOfType(emitted', "SettlementReceived"))
                     = result'.records_processed
              /\ \A i \in MovedToSettled :
                     Cardinality({k \in EventsOfType(emitted', "PaymentSettled") :
                                     emitted'[k].subject = i}) = 1
              /\ Cardinality(EventsOfType(emitted', "PaymentSettled"))
                     = Cardinality(MovedToSettled)
              /\ \A r \in EventsOfType(emitted', "SettlementReceived") :
                     \A p \in EventsOfType(emitted', "PaymentSettled") : r < p]_vars

\* C23: an item whose purpose is none of employee_net, tax_payment,
\* vendor_payment is rejected by execute_payments: the caller is told, no
\* instruction is created for it and nothing is sent to the provider for it.
C23_UnknownPurposeRejected ==
    [][\A req \in ExecRequests :
          (result'.op = "execute" /\ result'.batch_id = req.batch_id) =>
          \A oc \in [DOMAIN req.items -> Outcomes] :
          (/\ result'.op = "execute"
           /\ LoopReached(req)
           /\ ExecutePayments(req, oc)) =>
              \A k \in DOMAIN req.items :
                  req.items[k].purpose \notin Purposes =>
                      /\ FindByKey(instructions', req.tenant_id,
                                   ItemKey(req.batch_id, req.items[k]))
                             = FindByKey(instructions, req.tenant_id,
                                         ItemKey(req.batch_id, req.items[k]))
                      /\ TotalSends(attempts') <= TotalSends(attempts) + Len(req.items) - 1
                      /\ result'.status # "success"]_vars

\* C24: the synchronous and the asynchronous facade create the same
\* instruction for an item: the instruction an execute_payments step made for
\* an item of one of the three purposes has the purpose the asynchronous
\* facade gives the instruction it makes for that item.
C24_SyncAsyncSameCreation ==
    [][\A req \in ExecRequests :
          (result'.op = "execute" /\ result'.batch_id = req.batch_id) =>
          \A oc \in [DOMAIN req.items -> Outcomes] :
          (/\ result'.op = "execute"
           /\ LoopReached(req)
           /\ ExecutePayments(req, oc)) =>
              \A k \in DOMAIN req.items :
                  (/\ req.items[k].purpose \in Purposes
                   /\ FindByKey(instructions, req.tenant_id,
                                ItemKey(req.batch_id, req.items[k])) = {}) =>
                      LET a == AsyncCreateInstructionForItem(instructions, req, req.items[k])
                          i == InstructionOf(instructions', req, req.items[k])
                      IN  /\ instructions'[i].purpose = a.instructions[a.id].purpose
                          /\ instructions'[i].key = a.instructions[a.id].key
                          /\ instructions'[i].batch_id = a.instructions[a.id].batch_id]_vars

FacadeCalls == {"commit", "execute", "ingest", "callback"}

\* C25: the events of one facade call all carry the correlation_id of the
\* result the call returns, and that id is not the one of the call before it
\* nor of any of its events.
C25_OneCorrelationIdPerCall ==
    [][(calls' = calls + 1 /\ result'.op \in FacadeCalls) =>
          /\ \A k \in DOMAIN emitted' :
                 emitted'[k].correlation_id = result'.correlation_id
          /\ result.op \in FacadeCalls => result'.correlation_id # result.correlation_id
          /\ \A k \in DOMAIN emitted :
                 emitted[k].correlation_id # result'.correlation_id]_vars

\* C25 witness: a second call that emitted several events, after a first call
\* that emitted some too.
C25_Witness ==
    /\ calls = 2
    /\ result.op = "execute"
    /\ Len(emitted) = 4
    /\ \A k \in DOMAIN emitted : emitted[k].correlation_id = 2

\* C26: a callback handled for tenant T2 with the reference of an attempt of
\* tenant T1 is answered unknown with nothing of the instruction in the
\* result, whatever T1's data is, and changes neither the instruction nor the
\* liability events nor the ledger.
C26_CallbackTenantIsolation ==
    [][\A pl \in ForeignCallbackPayloads : \A pn \in providers :
          (/\ result'.op = "callback"
           /\ instructions[attempts[pl.provider_request_id].instruction_id].tenant_id # "T2"
           /\ HandleProviderCallback("T2", pn, pl.callback_type, pl)) =>
              /\ result'.status = "unknown"
              /\ result'.payment_instruction_id = NoId
              /\ result'.previous_status = Absent
              /\ result'.new_status = Absent
              /\ emitted' = <<>>
              /\ instructions' = instructions
              /\ liabilityEvents' = liabilityEvents
              /\ ledger' = ledger]_vars

\* C26 witness: tenant T2 was answered unknown for the reference of an attempt
\* of tenant T1 whose instruction a return would have moved.
C26_Witness ==
    /\ result.op = "callback"
    /\ result.status = "unknown"
    /\ \E d \in delivered :
           /\ d[1] = "T2"
           /\ d[3].provider_request_id \in DOMAIN attempts
           /\ instructions[attempts[d[3].provider_request_id].instruction_id].status
                  = "accepted"

\* The return codes some rail's classification table has a row for.
TabledCodes == {"R01", "R02", "R03", "R06", "R10", "RJCT"}

\* The liability events' classifications announced by the events of a call.
ClassifiedEvents(log) == EventsOfType(log, "LiabilityClassified")

\* C27: a return callback that is processed leaves a liability event under
\* the key return:<reference>:<code>; when the code is missing or in no
\* classification table the event is classified (unknown, psp, manual) with
\* the raw code as determination reason; ACH R01 is classified
\* (client_funding, client, debit_client); and the LiabilityClassified event
\* emitted by the call carries the classification of the recorded event.
C27_ReturnClassification ==
    [][\A pl \in CallbackPayloads : \A pn \in providers :
          (/\ result'.op = "callback"
           /\ result'.status = "processed"
           /\ IsReturnCase(pl.callback_type, result'.new_status)
           /\ HandleProviderCallback("T1", pn, pl.callback_type, pl)) =>
              LET key == <<"return", pl.provider_request_id, pl.return_code>>
                  raw == IF pl.return_code = Absent THEN "UNKNOWN" ELSE pl.return_code
              IN  /\ key \in DOMAIN liabilityEvents'
                  /\ key \notin DOMAIN liabilityEvents =>
                        LET c == liabilityEvents'[key].classification
                        IN  /\ pl.return_code \notin TabledCodes =>
                                  /\ c.error_origin = "unknown"
                                  /\ c.liability_party = "psp"
                                  /\ c.recovery_path = "manual"
                                  /\ c.determination_reason = raw
                            /\ (/\ pl.return_code = "R01"
                                /\ attempts[pl.provider_request_id].provider_name = "ach") =>
                                  /\ c.error_origin = "client_funding"
                                  /\ c.liability_party = "client"
                                  /\ c.recovery_path = "debit_client"
                            /\ config.emit_events =>
                                  /\ Cardinality(ClassifiedEvents(emitted')) = 1
                                  /\ \A e \in ClassifiedEvents(emitted') :
                                         emitted'[e].classification = c]_vars

\* C27 witness: a return without a code was processed and its liability
\* event is classified unknown with the reason UNKNOWN, as the emitted event
\* says too.
C27_Witness ==
    /\ result.op = "callback"
    /\ result.status = "processed"
    /\ \E k \in DOMAIN liabilityEvents :
           /\ k[3] = Absent
           /\ liabilityEvents[k].classification.error_origin = "unknown"
           /\ liabilityEvents[k].classification.determination_reason = "UNKNOWN"
           /\ Cardinality(ClassifiedEvents(emitted)) = 1
           /\ \A e \in ClassifiedEvents(emitted) :
                  emitted[e].classification = liabilityEvents[k].classification

\* The instructions an earlier call created for an item of a batch: those of
\* the tenant under the key batch_id:payee_ref_id:purpose.
EarlierOf(instrs, req, item) ==
    {i \in DOMAIN instrs : /\ instrs[i].tenant_id = req.tenant_id
                           /\ instrs[i].key = <<req.batch_id, item.payee, item.purpose>>}

\* The instructions of a batch.
InstructionsOfBatch(instrs, batch_id) ==
    {i \in DOMAIN instrs : instrs[i].batch_id = batch_id}

\* C28: when execute_payments runs again for a batch and items an earlier
\* call created instructions for, no instruction is created: the number of
\* instructions (of the batch, and in all) does not grow, each item has one
\* instruction, the one of the earlier call, and the
\* PaymentInstructionCreated events name those instructions.
C28_InstructionCreationIdempotent ==
    [][\A req \in ExecRequests :
          (result'.op = "execute" /\ result'.batch_id = req.batch_id) =>
          \A oc \in [DOMAIN req.items -> Outcomes] :
          (/\ result'.op = "execute"
           /\ OutcomesReported(req, oc)
           /\ LoopReached(req)
           /\ \A k \in DOMAIN req.items : EarlierOf(instructions, req, req.items[k]) # {}
           /\ ExecutePayments(req, oc)) =>
              /\ Len(instructions') = Len(instructions)
              /\ InstructionsOfBatch(instructions', req.batch_id)
                     = InstructionsOfBatch(instructions, req.batch_id)
              /\ \A k \in DOMAIN req.items :
                     /\ EarlierOf(instructions', req, req.items[k])
                            = EarlierOf(instructions, req, req.items[k])
                     /\ Cardinality(EarlierOf(instructions', req, req.items[k])) = 1
              /\ \A e \in EventsOfType(emitted', "PaymentInstructionCreated") :
                     \E k \in DOMAIN req.items :
                         emitted'[e].subject \in EarlierOf(instructions, req, req.items[k])]_vars

\* C28 witness: a batch of two items was executed twice and has two
\* instructions, each sent twice.
C28_Witness ==
    /\ calls = 2
    /\ result.op = "execute"
    /\ result.batch_id = BatchA.batch_id
    /\ Len(emitted) = 4
    /\ Cardinality(InstructionsOfBatch(instructions, BatchA.batch_id)) = 2
    /\ \A i \in InstructionsOfBatch(instructions, BatchA.batch_id) :
           \/ Cardinality(AttemptsOf(attempts, i)) = 2
           \/ \E a \in AttemptsOf(attempts, i) : attempts[a].sends = 2

\* The decision of the commit gate for a batch in the current state.
CommitGateOf(b) ==
    Replay(gateEvals, <<"commit_gate", b.idempotency_key>>,
           CommitGatePolicy(b.pay_period_id, DefaultFundingModel,
                            config.commit_gate_strict, GetBalance(ledger, reservations)))

\* C29: when the commit gate passes, commit_payroll_batch adds exactly one
\* reservation, held, for the batch and of the sum of the item amounts,
\* leaves the other reservations as they were, and returns approved with the
\* id of that reservation, total_amount the sum, approved_count the number of
\* items and blocked_count 0.
C29_ApprovedCommitReservesTotal ==
    [][\A b \in Batches :
          (/\ result'.op = "commit"
           /\ result'.batch_id = b.batch_id
           /\ CommitGateOf(b).passed
           /\ CommitPayrollBatch(b)) =>
              LET rid == result'.reservation_id
              IN  /\ Len(reservations') = Len(reservations) + 1
                  /\ \A i \in DOMAIN reservations : reservations'[i] = reservations[i]
                  /\ rid = Len(reservations')
                  /\ reservations'[rid].source_id = b.batch_id
                  /\ reservations'[rid].amount = SumAmounts(b.items)
                  /\ reservations'[rid].status = "held"
                  /\ result'.status = "approved"
                  /\ result'.total_amount = SumAmounts(b.items)
                  /\ result'.approved_count = Len(b.items)
                  /\ result'.blocked_count = 0]_vars

\* C29 witness: a batch of two items was approved and the reservation the
\* result names holds the sum of the two amounts.
C29_Witness ==
    /\ result.op = "commit"
    /\ result.status = "approved"
    /\ result.batch_id = BatchA.batch_id
    /\ result.approved_count = 2
    /\ result.total_amount = BatchA.items[1].amount + BatchA.items[2].amount
    /\ reservations[result.reservation_id].amount = result.total_amount
    /\ reservations[result.reservation_id].status = "held"

C31_ExecuteStatusFromCounts ==
    [][\A req \in ExecRequests :
          (result'.op = "execute" /\ result'.batch_id = req.batch_id) =>
          \A oc \in [DOMAIN req.items -> Outcomes] :
          (/\ result'.op = "execute"
           /\ OutcomesReported(req, oc)
           /\ ExecutePayments(req, oc)) =>
              /\ result'.status = "blocked" <=> (req.rail \in providers /\ ~LoopReached(req))
              /\ result'.status # "blocked" =>
                     /\ result'.status = "success" <=> result'.failed_count = 0
                     /\ result'.status = "failed" <=>
                            (result'.failed_count > 0 /\ result'.submitted_count = 0)
                     /\ result'.status = "partial" <=>
                            (result'.failed_count > 0 /\ result'.submitted_count > 0)
              /\ result'.status = "success" =>
                     result'.submitted_count = Len(req.items)]_vars

\* The number of errors the reconciliation of a call reported, as its
\* completion event says.
ErrorsReported(log) == log[Len(log)].unmatched_count

IndicatesInsufficient(reasons) ==
    \E i \in DOMAIN reasons : reasons[i].code = "INSUFFICIENT_FUNDS"

\* C33: with events on, every commit_payroll_batch call emits
\* FundingRequested and then one outcome event: FundingApproved exactly when
\* the status is approved, FundingInsufficientFunds exactly when it is
\* blocked_funds, FundingBlocked exactly when it is blocked_policy; the
\* status is blocked_funds exactly when the gate failed with a reason that
\* names insufficient funds, blocked_policy for every other failure of it.
C33_CommitEventsFollowStatus ==
    [][\A b \in Batches :
          (/\ result'.op = "commit"
           /\ result'.batch_id = b.batch_id
           /\ config.emit_events
           /\ CommitPayrollBatch(b)) =>
              LET gate == CommitGateOf(b)
              IN  /\ Len(emitted') = 2
                  /\ emitted'[1].type = "FundingRequested"
                  /\ emitted'[2].type = "FundingApproved" <=> result'.status = "approved"
                  /\ emitted'[2].type = "FundingInsufficientFunds"
                         <=> result'.status = "blocked_funds"
                  /\ emitted'[2].type = "FundingBlocked"
                         <=> result'.status = "blocked_policy"
                  /\ result'.status \in {"approved", "blocked_funds", "blocked_policy"}
                  /\ result'.status = "approved" <=> gate.passed
                  /\ result'.status = "blocked_funds"
                         <=> (~gate.passed /\ IndicatesInsufficient(gate.reasons))
                  /\ result'.status = "blocked_policy"
                         <=> (~gate.passed /\ ~IndicatesInsufficient(gate.reasons))]_vars

\* C33 witness: a strict commit was blocked for funds and announced as
\* FundingRequested followed by FundingInsufficientFunds.
C33_Witness ==
    /\ result.op = "commit"
    /\ result.status = "blocked_funds"
    /\ Len(emitted) = 2
    /\ emitted[1].type = "FundingRequested"
    /\ emitted[2].type = "FundingInsufficientFunds"

\* What a call that is turned away at the door leaves alone: everything but
\* its own result.
NothingChanged ==
    /\ emitted' = <<>>
    /\ UNCHANGED <<providers, gateEvals, reservations, ledger, instructions, attempts,
                   settlementEvents, liabilityEvents>>

\* C34: without a provider registered under the name asked for,
\* execute_payments returns failed with failed_count the number of items,
\* ingest_settlement_feed returns failed with all counts 0 and
\* handle_provider_callback returns invalid; a callback without a
\* provider_request_id is invalid and one whose reference belongs to no
\* instruction is unknown; none of these calls stores a gate evaluation,
\* creates an instruction, attempt, settlement event or liability event, or
\* emits an event.
C34_TurnedAwayChangesNothing ==
    [][/\ result'.op = "execute" =>
            \A req \in ExecRequests : \A oc \in [DOMAIN req.items -> Outcomes] :
                (/\ result'.batch_id = req.batch_id
                 /\ req.rail \notin providers
                 /\ ExecutePayments(req, oc)) =>
                    /\ result'.status = "failed"
                    /\ result'.submitted_count = 0
                    /\ result'.failed_count = Len(req.items)
                    /\ NothingChanged
       /\ result'.op = "ingest" =>
            \A feed \in Feeds : \A pn \in Rails \ providers :
                IngestSettlementFeed("T1", pn, feed, feed) =>
                    /\ result'.status = "failed"
                    /\ result'.records_processed = 0
                    /\ result'.records_matched = 0
                    /\ result'.records_created = 0
                    /\ result'.records_failed = 0
                    /\ result'.unmatched_trace_ids = <<>>
                    /\ NothingChanged
       /\ result'.op = "callback" =>
            \A pl \in CallbackPayloads : \A pn \in Rails :
                (/\ \/ pn \notin providers
                    \/ pl.provider_request_id = NoId
                    \/ pl.provider_request_id \notin DOMAIN attempts
                 /\ HandleProviderCallback("T1", pn, pl.callback_type, pl)) =>
                    /\ result'.status =
                           IF pn \notin providers \/ pl.provider_request_id = NoId
                           THEN "invalid" ELSE "unknown"
                    /\ result'.payment_instruction_id = NoId
                    /\ NothingChanged]_vars

\* C34 witness: a callback named a provider that is not registered and was
\* answered invalid.
C34_Witness ==
    /\ result.op = "callback"
    /\ result.status = "invalid"
    /\ emitted = <<>>
    /\ \E d \in delivered : d[2] \notin providers /\ d[3].provider_request_id # NoId

\* The decision of the pay gate for a request in the current state.
PayGateOf(req) ==
    Replay(gateEvals, <<"pay_gate", req.batch_id>>,
           PayGatePolicy(gateEvals, reservations, ledger, req.batch_id))

\* The pay gate is asked (provider registered, gate enforced) and does not pass.
PayGateFails(req) ==
    /\ req.rail \in providers
    /\ config.pay_gate_always_enforced
    /\ ~PayGateOf(req).passed

\* C35: when the pay gate does not pass, execute_payments returns blocked
\* with submitted_count 0 and failed_count the number of items, creates no
\* instruction and no attempt, leaves every reservation as it was (a held one
\* held), posts nothing and emits nothing; the decision is kept, so the same
\* call made again is blocked again.
C35_BlockedExecuteChangesNothing ==
    [][result'.op = "execute" =>
          \A req \in ExecRequests : \A oc \in [DOMAIN req.items -> Outcomes] :
              (/\ result'.batch_id = req.batch_id
               /\ PayGateFails(req)
               /\ ExecutePayments(req, oc)) =>
                  LET key == <<"pay_gate", req.batch_id>>
                  IN  /\ result'.status = "blocked"
                      /\ result'.submitted_count = 0
                      /\ result'.failed_count = Len(req.items)
                      /\ emitted' = <<>>
                      /\ UNCHANGED <<instructions, attempts, reservations, ledger,
                                     settlementEvents, liabilityEvents>>
                      /\ key \in DOMAIN gateEvals'
                      /\ ~gateEvals'[key].passed
                      /\ key \in DOMAIN gateEvals => gateEvals' = gateEvals]_vars

\* C35 witness: execute_payments was blocked for a batch that was blocked
\* before: the decision was stored by the first call, nothing was created for
\* the batch, and the result counts both items as failed.
C35_Witness ==
    /\ calls = 2
    /\ result.op = "execute"
    /\ result.status = "blocked"
    /\ result.batch_id = BatchA.batch_id
    /\ result.failed_count = 2
    /\ result.correlation_id = 2
    /\ "rtp" \notin providers
    /\ Len(reservations) = 1
    /\ delivered = {}
    /\ settlementEvents = <<>>
    /\ ~gateEvals[<<"pay_gate", BatchA.batch_id>>].passed
    /\ InstructionsOfBatch(instructions, BatchA.batch_id) = {}

\* C36: the pay gate of execute_payments is evaluated for the pay run the
\* commit gate of the batch was evaluated for: when a batch was committed
\* and approved, its reservation is still held and the pay gate is asked for
\* the first time, the decision names the pay run of the commit decision, it
\* passes, and the call is not blocked.
C36_PayGateFindsCommit ==
    [][result'.op = "execute" =>
          \A b \in Batches : \A req \in ExecRequests : \A oc \in [DOMAIN req.items -> Outcomes] :
              (/\ result'.batch_id = b.batch_id
               /\ req.batch_id = b.batch_id
               /\ req.rail \in providers
               /\ config.pay_gate_always_enforced
               /\ <<"commit_gate", b.idempotency_key>> \in DOMAIN gateEvals
               /\ gateEvals[<<"commit_gate", b.idempotency_key>>].passed
               /\ <<"pay_gate", b.batch_id>> \notin DOMAIN gateEvals
               /\ \E i \in DOMAIN reservations :
                      /\ reservations[i].source_id = b.batch_id
                      /\ reservations[i].status = "held"
               /\ ExecutePayments(req, oc)) =>
                  /\ gateEvals'[<<"pay_gate", b.batch_id>>].pay_run_id
                         = gateEvals[<<"commit_gate", b.idempotency_key>>].pay_run_id
                  /\ gateEvals'[<<"pay_gate", b.batch_id>>].passed
                  /\ result'.status # "blocked"]_vars

\* C37: whenever handle_provider_callback records a liability event or emits
\* PaymentReturned for an instruction, the status of the instruction after
\* the call is returned; whenever it emits PaymentSettled, the status after
\* the call is settled.
C37_CallbackEventsAgreeWithStatus ==
    [][result'.op = "callback" =>
          /\ \A k \in DOMAIN liabilityEvents' \ DOMAIN liabilityEvents :
                 instructions'[liabilityEvents'[k].source_id].status = "returned"
          /\ \A e \in DOMAIN emitted' :
                 /\ emitted'[e].type = "PaymentReturned" =>
                        instructions'[emitted'[e].subject].status = "returned"
                 /\ emitted'[e].type = "PaymentSettled" =>
                        instructions'[emitted'[e].subject].status = "settled"]_vars

\* The states of an instruction the provider has accepted.
AcceptedOrLater == {"accepted", "settled", "returned"}

\* C38: no payment is sent to a rail twice: an execute_payments call adds no
\* attempt to an instruction that is already accepted or later and sends none
\* of its attempts again, and after the call every instruction has at most
\* one accepted attempt.
C38_NoSecondSubmission ==
    [][result'.op = "execute" =>
          \A i \in DOMAIN instructions :
              /\ instructions[i].status \in AcceptedOrLater =>
                     /\ AttemptsOf(attempts', i) = AttemptsOf(attempts, i)
                     /\ \A a \in AttemptsOf(attempts, i) : attempts'[a] = attempts[a]
              /\ Cardinality({a \in AttemptsOf(attempts', i) :
                                  attempts'[a].status = "accepted"}) <= 1]_vars

\* C39: within one execute_payments call every item yields its own payment
\* instruction: for a batch that has no instruction yet, the rows the call
\* adds are as many as the items and their amounts add up to the sum of the
\* item amounts.
C39_OneInstructionPerItem ==
    [][result'.op = "execute" =>
          \A req \in ExecRequests : \A oc \in [DOMAIN req.items -> Outcomes] :
              (/\ result'.batch_id = req.batch_id
               /\ InstructionsOfBatch(instructions, req.batch_id) = {}
               /\ result'.status \in {"success", "partial", "failed"}
               /\ req.rail \in providers
               /\ OutcomesReported(req, oc)
               /\ ExecutePayments(req, oc)) =>
                  LET new == DOMAIN instructions' \ DOMAIN instructions
                  IN  /\ Cardinality(new) = Len(req.items)
                      /\ SumAmounts([k \in 1..Cardinality(new) |->
                                        instructions'[Len(instructions) + k]])
                             = SumAmounts(req.items)]_vars

\* C40: a return reported by handle_provider_callback is classified with the
\* table of the rail of the provider named in the callback: the liability
\* event the call records, and the LiabilityClassified event it emits, carry
\* the classification that rail's table gives the return code.
C40_ReturnClassifiedByRailUsed ==
    [][\A pl \in CallbackPayloads : \A pn \in providers :
          (/\ result'.op = "callback"
           /\ result'.status = "processed"
           /\ IsReturnCase(pl.callback_type, result'.new_status)
           /\ HandleProviderCallback("T1", pn, pl.callback_type, pl)) =>
              LET key == <<"return", pl.provider_request_id, pl.return_code>>
              IN  /\ key \in DOMAIN liabilityEvents' \ DOMAIN liabilityEvents =>
                         liabilityEvents'[key].classification
                             = ClassifyReturn(pn, ReturnCodeOr(pl))
                  /\ \A e \in ClassifiedEvents(emitted') :
                         emitted'[e].classification = ClassifyReturn(pn, ReturnCodeOr(pl))]_vars
====
